---- MODULE Spec2Model ----
(***************************************************************************)
(* The linked-list heap allocator of clacos (src/allocator/linked_list.rs) *)
(* as a state machine.  Memory is modelled at the level the allocator      *)
(* touches it: the sentinel `head`, and the ListNode written at the start  *)
(* of every free region (`nodes`, a map from address to node).  Addresses  *)
(* and sizes are bytes.                                                    *)
(***************************************************************************)
EXTENDS Integers, Sequences, FiniteSets, TLC

VARIABLES
    phase,      \* "uninit" before LinkedListAllocator::init, "operating" after
    heap,       \* the range given to init: [start, size]
    head,       \* LinkedListAllocator.head: the sentinel ListNode [size, next]
    nodes,      \* heap memory holding ListNodes: address -> [size, next]
    aborted,    \* TRUE once an assert!/expect of the allocator has panicked
    live,       \* the caller's live allocations: {[addr, size, align]} as requested
                \* (dup: the address was already live when alloc returned it)
    last,       \* the last call made: what was asked and what came back
    script,     \* scenario runs: the sequence of calls to make (<<>> otherwise)
    pc,         \* scenario runs: index of the next call of `script`; alignment
                \* exploration: 1 + the number of allocations made
    slots,      \* scenario runs: result of the i-th allocate of the script
    cpu         \* the single core: the guard of the allocator, where the interrupted
                \* code stands in its call, and where the interrupt handler stands

vars == <<phase, heap, head, nodes, aborted, live, last, script, pc, slots, cpu>>

-----------------------------------------------------------------------------
(* Program constants *)

\* mem::size_of::<ListNode>() on x86_64: usize + Option<&'static mut ListNode>
NodeSize == 16
\* mem::align_of::<ListNode>()
NodeAlign == 8
\* ptr::null_mut() / Option::None of a reference
NULL == 0

(* Bounds of the model *)

\* most allocations the caller keeps live at once
MaxLive == 3
\* largest heap handed to init in the exploration
MaxHeapSize == 64
\* the address width of the model is AddrBits bits (usize is 64 bits in the build)
AddrBits == 20

USIZE_MAX == 2^AddrBits - 1

\* heap_start values: node-aligned, placed just below a 4096 boundary so that
\* every alignment up to 4096 can be satisfied inside a small heap
HeapStarts == {4080, 4088}
HeapSizes == {NodeSize, 40, MaxHeapSize}
\* requested Layout sizes (> 0) and alignments (powers of two)
Sizes == {1, 16, 30}
Aligns == {1, 8, 32}

\* the alignment exploration: every power of two up to 4096, on heaps that start
\* just below a multiple of 64, 2048 and 4096 and hold up to two 4096-byte
\* blocks; the caller makes at most MaxAllocsAligned allocations
MaxLiveAligned == 2
MaxAllocsAligned == 2
AllAligns == {1, 2, 4, 8, 16, 32, 64, 128, 256, 512, 1024, 2048, 4096}
AlignedSizes == {17}
AlignedStarts == {8, 2040, 4088}
AlignedHeapSizes == {MaxHeapSize, 4096 + MaxHeapSize, 2 * 4096 + MaxHeapSize}

\* the layout exploration: sizes on both sides of the node size and of the small
\* alignments, at every alignment, on a heap that can hold a 4096-aligned block;
\* the caller makes at most MaxAllocsLayouts allocations
MaxAllocsLayouts == 1
LayoutSizes == {1, 7, 8, 9, 16, 17, 33}
LayoutStarts == {4088}

\* the overflow exploration: heaps inside the last 256 bytes of the address space
\* that end before its last 120 bytes (so ListNode::end_addr does not overflow,
\* and a region's start aligned up to 128 is still an address), and requests up
\* to the largest size a Layout can have
OverflowStarts == {USIZE_MAX + 1 - 256, USIZE_MAX + 1 - 248}
OverflowHeapSizes == {MaxHeapSize, 2 * MaxHeapSize}
OverflowSizes == {16, 256, 2^(AddrBits - 1) - 128}
OverflowAligns == {8, 128}

\* the guard exploration: a small heap, one layout for the interrupted code (the
\* handler asks for a block of the size of a ListNode)
LockedStarts == {4080}
LockedHeapSizes == {40, MaxHeapSize}
LockedSizes == {30}
LockedAligns == {8}

-----------------------------------------------------------------------------
(* Helpers of the code *)

max(a, b) == IF a >= b THEN a ELSE b

\* allocator::fast_align_up: the smallest multiple of align that is >= addr
fast_align_up(addr, align) == ((addr + align - 1) \div align) * align

\* usize::checked_add: None (here -1) on overflow of the address width
checked_add(a, b) == IF a + b > USIZE_MAX THEN -1 ELSE a + b

ListNode_new(size) == [size |-> size, next |-> NULL]

\* ListNode::start_addr: the node's own address
start_addr(addr) == addr

\* ListNode::end_addr: start_addr() + size
end_addr(addr, size) == start_addr(addr) + size

\* the allocator as the methods see it
Self == [head |-> head, nodes |-> nodes, aborted |-> aborted]

\* LinkedListAllocator::new
new == [head |-> ListNode_new(0), nodes |-> << >>, aborted |-> FALSE]

-----------------------------------------------------------------------------
(* LinkedListAllocator *)

\* mutant of add_free_region: the node is linked after the first region of the
\* list instead of after the sentinel
add_free_region_second(self, addr, size) ==
    IF fast_align_up(addr, NodeAlign) # addr \/ size < NodeSize
    THEN [self EXCEPT !.aborted = TRUE]
    ELSE IF self.head.next = NULL
    THEN [self EXCEPT
             !.nodes = [a \in {addr} |-> [size |-> size, next |-> NULL]],
             !.head = [self.head EXCEPT !.next = addr]]
    ELSE LET first == self.head.next
             node == [size |-> size, next |-> self.nodes[first].next]
         IN [self EXCEPT
                !.nodes = [a \in (DOMAIN self.nodes) \cup {addr} |->
                              IF a = addr THEN node
                              ELSE IF a = first
                              THEN [self.nodes[a] EXCEPT !.next = addr]
                              ELSE self.nodes[a]]]

\* mutant of add_free_region: the new node is written over the sentinel
add_free_region_over_head(self, addr, size) ==
    IF fast_align_up(addr, NodeAlign) # addr \/ size < NodeSize
    THEN [self EXCEPT !.aborted = TRUE]
    ELSE LET node == [size |-> size, next |-> self.head.next]
         IN [self EXCEPT
                !.nodes = [a \in (DOMAIN self.nodes) \cup {addr} |->
                              IF a = addr THEN node ELSE self.nodes[a]],
                !.head = [size |-> size, next |-> addr]]

\* add_free_region: the two consistency asserts, then write a node at addr and
\* prepend it (node.next = head.next.take(); head.next = node)
add_free_region(self, addr, size) ==
    IF fast_align_up(addr, NodeAlign) # addr \/ size < NodeSize
    THEN [self EXCEPT !.aborted = TRUE]
    ELSE LET node == [size |-> size, next |-> self.head.next]
         IN [self EXCEPT
                !.nodes = [a \in (DOMAIN self.nodes) \cup {addr} |->
                              IF a = addr THEN node ELSE self.nodes[a]],
                !.head = [self.head EXCEPT !.next = addr]]

\* init
init(self, heap_start, heap_size) == add_free_region(self, heap_start, heap_size)

\* mutant of alloc_from_region_possible: the block starts at the region's start,
\* not at the aligned address
alloc_from_region_possible_unaligned(region, region_size, size, align) ==
    LET alloc_start == start_addr(region)
        alloc_end == checked_add(alloc_start, size)
        excess_size == end_addr(region, region_size) - alloc_end
    IN  IF alloc_end = -1 THEN [ok |-> FALSE, start |-> NULL]
        ELSE IF alloc_end > end_addr(region, region_size)
        THEN [ok |-> FALSE, start |-> NULL]
        ELSE IF excess_size > 0 /\ excess_size < NodeSize
        THEN [ok |-> FALSE, start |-> NULL]
        ELSE [ok |-> TRUE, start |-> alloc_start]

\* mutant of alloc_from_region_possible: a block that ends exactly at the end of
\* the region is refused (>= for >)
alloc_from_region_possible_strict(region, region_size, size, align) ==
    LET alloc_start == fast_align_up(start_addr(region), align)
        alloc_end == checked_add(alloc_start, size)
        excess_size == end_addr(region, region_size) - alloc_end
    IN  IF alloc_end = -1 THEN [ok |-> FALSE, start |-> NULL]
        ELSE IF alloc_end >= end_addr(region, region_size)
        THEN [ok |-> FALSE, start |-> NULL]
        ELSE IF excess_size > 0 /\ excess_size < NodeSize
        THEN [ok |-> FALSE, start |-> NULL]
        ELSE [ok |-> TRUE, start |-> alloc_start]

\* mutant of alloc_from_region_possible: the leftover is not checked against the
\* size of a ListNode
alloc_from_region_possible_any_excess(region, region_size, size, align) ==
    LET alloc_start == fast_align_up(start_addr(region), align)
        alloc_end == checked_add(alloc_start, size)
    IN  IF alloc_end = -1 THEN [ok |-> FALSE, start |-> NULL]
        ELSE IF alloc_end > end_addr(region, region_size)
        THEN [ok |-> FALSE, start |-> NULL]
        ELSE [ok |-> TRUE, start |-> alloc_start]

\* mutant of alloc_from_region_possible: a leftover of exactly the size of a
\* ListNode is refused (<= for <)
alloc_from_region_possible_excess_le(region, region_size, size, align) ==
    LET alloc_start == fast_align_up(start_addr(region), align)
        alloc_end == checked_add(alloc_start, size)
        excess_size == end_addr(region, region_size) - alloc_end
    IN  IF alloc_end = -1 THEN [ok |-> FALSE, start |-> NULL]
        ELSE IF alloc_end > end_addr(region, region_size)
        THEN [ok |-> FALSE, start |-> NULL]
        ELSE IF excess_size > 0 /\ excess_size <= NodeSize
        THEN [ok |-> FALSE, start |-> NULL]
        ELSE [ok |-> TRUE, start |-> alloc_start]

\* mutant of alloc_from_region_possible: the end of the block is computed with a
\* wrapping addition
alloc_from_region_possible_wrapping(region, region_size, size, align) ==
    LET alloc_start == fast_align_up(start_addr(region), align)
        alloc_end == (alloc_start + size) % (USIZE_MAX + 1)
        excess_size == end_addr(region, region_size) - alloc_end
    IN  IF alloc_end > end_addr(region, region_size)
        THEN [ok |-> FALSE, start |-> NULL]
        ELSE IF excess_size > 0 /\ excess_size < NodeSize
        THEN [ok |-> FALSE, start |-> NULL]
        ELSE [ok |-> TRUE, start |-> alloc_start]

\* alloc_from_region_possible: Ok(alloc_start) or Err(())
alloc_from_region_possible(region, region_size, size, align) ==
    LET alloc_start == fast_align_up(start_addr(region), align)
        alloc_end == checked_add(alloc_start, size)
        excess_size == end_addr(region, region_size) - alloc_end
    IN  IF alloc_end = -1 THEN [ok |-> FALSE, start |-> NULL]
        ELSE IF alloc_end > end_addr(region, region_size)
        THEN [ok |-> FALSE, start |-> NULL]
        ELSE IF excess_size > 0 /\ excess_size < NodeSize
        THEN [ok |-> FALSE, start |-> NULL]
        ELSE [ok |-> TRUE, start |-> alloc_start]

\* the `next` field of `previous`, which is the sentinel (NULL names it) or a node
next_of(self, previous) ==
    IF previous = NULL THEN self.head.next ELSE self.nodes[previous].next

\* mutant of unlink: the region found stays linked in the list
unlink_kept(self, previous, region) == self

\* find_region, success branch: unlink `region` from after `previous`
\* (next = region.next.take(); previous.next = next) and return it
unlink(self, previous, region) ==
    LET next == self.nodes[region].next
        rest == [a \in (DOMAIN self.nodes) \ {region} |-> self.nodes[a]]
    IN  IF previous = NULL
        THEN [self EXCEPT !.head = [self.head EXCEPT !.next = next], !.nodes = rest]
        ELSE [self EXCEPT !.nodes = [rest EXCEPT ![previous].next = next]]

\* find_region, the loop: from `previous` on, the first region that fits
RECURSIVE scan(_, _, _, _)
scan(self, previous, size, align) ==
    LET region == next_of(self, previous)
    IN  IF region = NULL
        THEN [found |-> FALSE, self |-> self, region |-> NULL, region_size |-> 0,
              alloc_start |-> NULL]
        ELSE LET fit == alloc_from_region_possible(region, self.nodes[region].size,
                                                   size, align)
             IN  IF fit.ok
                 THEN [found |-> TRUE, self |-> unlink(self, previous, region),
                       region |-> region, region_size |-> self.nodes[region].size,
                       alloc_start |-> fit.start]
                 ELSE scan(self, region, size, align)

\* mutant of find_region: the walk takes the chain out of the sentinel and a
\* failed search does not put it back
find_region_taking(self, size, align) ==
    LET f == scan(self, NULL, size, align)
    IN  IF f.found THEN f
        ELSE [f EXCEPT !.self = [self EXCEPT !.head = [self.head EXCEPT !.next = NULL],
                                             !.nodes = << >>]]

\* mutant of find_region: only the first region of the list is tested
find_region_first_only(self, size, align) ==
    LET region == self.head.next
        none == [found |-> FALSE, self |-> self, region |-> NULL, region_size |-> 0,
                 alloc_start |-> NULL]
    IN  IF region = NULL THEN none
        ELSE LET fit == alloc_from_region_possible(region, self.nodes[region].size,
                                                   size, align)
             IN  IF fit.ok
                 THEN [found |-> TRUE, self |-> unlink(self, NULL, region),
                       region |-> region, region_size |-> self.nodes[region].size,
                       alloc_start |-> fit.start]
                 ELSE none

\* mutant of find_region: the last region of the list that fits is taken
RECURSIVE scan_last(_, _, _, _)
scan_last(self, previous, size, align) ==
    LET region == next_of(self, previous)
    IN  IF region = NULL
        THEN [found |-> FALSE, self |-> self, region |-> NULL, region_size |-> 0,
              alloc_start |-> NULL]
        ELSE LET later == scan_last(self, region, size, align)
                 fit == alloc_from_region_possible(region, self.nodes[region].size,
                                                   size, align)
             IN  IF later.found \/ ~fit.ok THEN later
                 ELSE [found |-> TRUE, self |-> unlink(self, previous, region),
                       region |-> region, region_size |-> self.nodes[region].size,
                       alloc_start |-> fit.start]

find_region_last_fit(self, size, align) == scan_last(self, NULL, size, align)

\* find_region: Some((region, alloc_start)) or None
find_region(self, size, align) == scan(self, NULL, size, align)

\* find_region, the loop counted: the number of regions it examines from
\* `previous` on, up to and including the one that fits; -1 when it would examine
\* more than `fuel` regions
RECURSIVE examined(_, _, _, _, _)
examined(self, previous, size, align, fuel) ==
    LET region == next_of(self, previous)
    IN  IF region = NULL THEN 0
        ELSE IF fuel = 0 THEN -1
        ELSE IF alloc_from_region_possible(region, self.nodes[region].size,
                                           size, align).ok
        THEN 1
        ELSE LET n == examined(self, region, size, align, fuel - 1)
             IN  IF n = -1 THEN -1 ELSE n + 1

\* Layout::pad_to_align: size rounded up to a multiple of align
pad_to_align(size, align) == ((size + align - 1) \div align) * align

\* mutant of size_align: the size is not raised to the size of a ListNode
size_align_unclamped(size, align) ==
    LET a == max(align, NodeAlign)
    IN  <<pad_to_align(size, a), a>>

\* mutant of size_align: the size is not padded to the alignment
size_align_unpadded(size, align) ==
    LET a == max(align, NodeAlign)
    IN  <<max(size, NodeSize), a>>

\* size_align: <<size, align>> adjusted so that the block can later hold a ListNode
size_align(size, align) ==
    LET a == max(align, NodeAlign)
        padded == pad_to_align(size, a)
    IN  <<max(padded, NodeSize), a>>

\* what alloc hands back: the allocator, the pointer returned, and the region
\* find_region unlinked for it (NULL when none)
AllocResult(self, ptr, found) ==
    [self |-> self, ptr |-> ptr, region |-> found.region,
     region_size |-> found.region_size]

\* mutant of alloc_found: the leftover is added at the start of the region found
\* instead of after the block
alloc_front(found, size) ==
    IF found.found
    THEN LET alloc_end == checked_add(found.alloc_start, size)
             excess_size == end_addr(found.region, found.region_size) - alloc_end
         IN  IF excess_size > 0
             THEN AllocResult(add_free_region(found.self, found.region, excess_size),
                              found.alloc_start, found)
             ELSE AllocResult(found.self, found.alloc_start, found)
    ELSE AllocResult(found.self, NULL, found)

\* mutant of alloc_found: the leftover of the region is not added back
alloc_found_no_split(found, size) ==
    IF found.found
    THEN AllocResult(found.self, found.alloc_start, found)
    ELSE AllocResult(found.self, NULL, found)

\* alloc, once find_region has answered `found` for the adjusted size: split
\* the region found and return the block, or return NULL when out of memory
alloc_found(found, size) ==
    IF found.found
    THEN LET alloc_end == checked_add(found.alloc_start, size)
             excess_size == end_addr(found.region, found.region_size) - alloc_end
         IN  IF alloc_end = -1
             THEN AllocResult([found.self EXCEPT !.aborted = TRUE], NULL, found)
             ELSE IF excess_size > 0
             THEN AllocResult(add_free_region(found.self, alloc_end, excess_size),
                              found.alloc_start, found)
             ELSE AllocResult(found.self, found.alloc_start, found)
    ELSE AllocResult(found.self, NULL, found)

\* GlobalAlloc::alloc
alloc(self, size, align) ==
    LET sa == size_align(size, align)
    IN  alloc_found(find_region(self, sa[1], sa[2]), sa[1])

\* mutant of dealloc: the region is added with the requested size, not the
\* adjusted one
dealloc_unadjusted(self, ptr, size, align) ==
    add_free_region(self, ptr, size)

\* GlobalAlloc::dealloc
dealloc(self, ptr, size, align) ==
    add_free_region(self, ptr, size_align(size, align)[1])

-----------------------------------------------------------------------------
(* Views of the state *)

\* the free list as the chain of regions reached from the sentinel
RECURSIVE chain(_, _, _)
chain(ns, addr, fuel) ==
    IF addr = NULL \/ fuel = 0 THEN << >>
    ELSE <<[addr |-> addr, size |-> ns[addr].size]>> \o chain(ns, ns[addr].next, fuel - 1)

FreeListOf(self) == chain(self.nodes, self.head.next, Cardinality(DOMAIN self.nodes) + 1)
FreeList == FreeListOf(Self)

RECURSIVE SumSizes(_)
SumSizes(s) == IF s = << >> THEN 0 ELSE Head(s).size + SumSizes(Tail(s))

\* the record of a call: what was asked (op, size, align), what came back (ptr; for
\* alloc the region find_region unlinked), the length of the free list before it,
\* and how it continues the call before it:
\*   after     the op of the call before
\*   re_ptr    alloc: the block freed by the call before, when that was a dealloc
\*             (NULL otherwise); re_size, re_align: the layout it was freed with
\*   re_cyc    alloc: that dealloc freed the block the call before it had allocated
\*   cyc_len   dealloc: the length of the free list before the call before, when that
\*             call allocated the block freed here (-1 otherwise)
\*   rep       dealloc: that allocation directly followed a dealloc of the same layout
\*   examined  alloc: the number of regions find_region examined
NoCall == [op |-> "none", size |-> 0, align |-> 0, ptr |-> NULL,
           region |-> NULL, region_size |-> 0, len |-> 0, examined |-> 0,
           after |-> "none",
           re_ptr |-> NULL, re_size |-> 0, re_align |-> 0, re_cyc |-> FALSE,
           cyc_len |-> -1, rep |-> FALSE]

InitRecord(heap_start, heap_size) ==
    [NoCall EXCEPT !.op = "init", !.ptr = heap_start, !.size = heap_size,
                   !.len = Len(FreeList), !.after = last.op]

AllocRecord(size, align, ptr, region, region_size) ==
    LET re == last.op = "dealloc"
        sa == size_align(size, align)
    IN  [NoCall EXCEPT !.op = "alloc", !.size = size, !.align = align, !.ptr = ptr,
                       !.region = region, !.region_size = region_size,
                       !.len = Len(FreeList), !.after = last.op,
                       !.examined = examined(Self, NULL, sa[1], sa[2], Len(FreeList)),
                       !.re_ptr = IF re THEN last.ptr ELSE NULL,
                       !.re_size = IF re THEN last.size ELSE 0,
                       !.re_align = IF re THEN last.align ELSE 0,
                       !.re_cyc = re /\ last.cyc_len # -1]

DeallocRecord(ptr, size, align) ==
    LET cyc == last.op = "alloc" /\ last.ptr = ptr
    IN  [NoCall EXCEPT !.op = "dealloc", !.size = size, !.align = align, !.ptr = ptr,
                       !.len = Len(FreeList), !.after = last.op,
                       !.cyc_len = IF cyc THEN last.len ELSE -1,
                       !.rep = cyc /\ last.re_ptr # NULL /\ last.re_size = size
                                   /\ last.re_align = align]

-----------------------------------------------------------------------------
(* The calls *)

\* the argument of a call in progress: the layout asked for, or the block freed
NoArg == [addr |-> NULL, size |-> 0, align |-> 0, dup |-> FALSE]

\* the core at rest: the guard free, the interrupted code outside any call of
\* the allocator, no handler running
\*   lock       the guard of Locked<LinkedListAllocator> is held
\*   main       "locked" while the interrupted code is inside alloc or dealloc,
\*              past self.lock(); call, arg: which call and its argument
\*   handler    "none", or where the interrupt handler stands: "entered" (it does
\*              not allocate), "wants" (about to call alloc), "spin" (inside
\*              self.lock(), busy-waiting), "locked" (past self.lock()), "done"
\*   allocates  the handlers of this run call alloc
CpuIdle == [lock |-> FALSE, main |-> "idle", call |-> "none", arg |-> NoArg,
            handler |-> "none", allocates |-> FALSE]

\* boot: allocator.lock().init(heap_start, heap_size), once
DoInit(heap_start, heap_size) ==
    \E s \in {init(Self, heap_start, heap_size)} :
        /\ phase = "uninit"
        /\ head' = s.head
        /\ nodes' = s.nodes
        /\ aborted' = s.aborted
        /\ heap' = [start |-> heap_start, size |-> heap_size]
        /\ last' = InitRecord(heap_start, heap_size)
        /\ phase' = "operating"
        /\ UNCHANGED live

\* a caller's alloc(Layout(size, align)); a non-null block becomes live, and the
\* caller keeps at most max_live blocks
DoAlloc(size, align, max_live) ==
    \E r \in {alloc(Self, size, align)} :
        /\ phase = "operating"
        /\ ~aborted
        /\ (r.ptr # NULL => Cardinality(live) < max_live)
        /\ head' = r.self.head
        /\ nodes' = r.self.nodes
        /\ aborted' = r.self.aborted
        /\ live' = IF r.ptr = NULL THEN live
                   ELSE live \cup {[addr |-> r.ptr, size |-> size, align |-> align,
                                    dup |-> \E l \in live : l.addr = r.ptr]}
        /\ last' = AllocRecord(size, align, r.ptr, r.region, r.region_size)
        /\ UNCHANGED <<phase, heap>>

\* a caller's dealloc(ptr, layout) of one of its live blocks, with the layout it
\* was allocated with
DoDealloc(l) ==
    \E s \in {dealloc(Self, l.addr, l.size, l.align)} :
        /\ phase = "operating"
        /\ ~aborted
        /\ l \in live
        /\ head' = s.head
        /\ nodes' = s.nodes
        /\ aborted' = s.aborted
        /\ live' = live \ {l}
        /\ last' = DeallocRecord(l.addr, l.size, l.align)
        /\ UNCHANGED <<phase, heap>>

(* Free exploration: any contract-respecting sequence of calls on a small heap *)

Initialize ==
    /\ script = << >>
    /\ \E heap_start \in HeapStarts, heap_size \in HeapSizes :
          DoInit(heap_start, heap_size)
    /\ UNCHANGED <<script, pc, slots, cpu>>

Allocate ==
    /\ script = << >>
    /\ \E size \in Sizes, align \in Aligns :
          DoAlloc(size, align, MaxLive)
    /\ UNCHANGED <<script, pc, slots, cpu>>

Deallocate ==
    /\ script = << >>
    /\ \E l \in live : DoDealloc(l)
    /\ UNCHANGED <<script, pc, slots, cpu>>

Init ==
    /\ phase = "uninit"
    /\ heap = [start |-> 0, size |-> 0]
    /\ head = new.head
    /\ nodes = new.nodes
    /\ aborted = new.aborted
    /\ live = {}
    /\ last = NoCall
    /\ script = << >>
    /\ pc = 1
    /\ slots = << >>
    /\ cpu = CpuIdle

Next == Initialize \/ Allocate \/ Deallocate

Spec == Init /\ [][Next]_vars

(* The alignment exploration *)

InitializeAligned ==
    /\ script = << >>
    /\ \E heap_start \in AlignedStarts, heap_size \in AlignedHeapSizes :
          DoInit(heap_start, heap_size)
    /\ UNCHANGED <<script, pc, slots, cpu>>

AllocateAligned ==
    /\ script = << >>
    /\ pc <= MaxAllocsAligned
    /\ \E size \in AlignedSizes, align \in AllAligns :
          DoAlloc(size, align, MaxLiveAligned)
    /\ pc' = pc + 1
    /\ UNCHANGED <<script, slots, cpu>>

NextAligned == InitializeAligned \/ AllocateAligned \/ Deallocate

SpecAligned == Init /\ [][NextAligned]_vars

(* The layout exploration *)

InitializeLayouts ==
    /\ script = << >>
    /\ \E heap_start \in LayoutStarts, heap_size \in AlignedHeapSizes :
          DoInit(heap_start, heap_size)
    /\ UNCHANGED <<script, pc, slots, cpu>>

AllocateLayouts ==
    /\ script = << >>
    /\ pc <= MaxAllocsLayouts
    /\ \E size \in LayoutSizes, align \in AllAligns :
          DoAlloc(size, align, MaxLiveAligned)
    /\ pc' = pc + 1
    /\ UNCHANGED <<script, slots, cpu>>

NextLayouts == InitializeLayouts \/ AllocateLayouts \/ Deallocate

SpecLayouts == Init /\ [][NextLayouts]_vars

(* The overflow exploration *)

InitializeOverflow ==
    /\ script = << >>
    /\ \E heap_start \in OverflowStarts, heap_size \in OverflowHeapSizes :
          DoInit(heap_start, heap_size)
    /\ UNCHANGED <<script, pc, slots, cpu>>

AllocateOverflow ==
    /\ script = << >>
    /\ \E size \in OverflowSizes, align \in OverflowAligns :
          DoAlloc(size, align, MaxLiveAligned)
    /\ UNCHANGED <<script, pc, slots, cpu>>

NextOverflow == InitializeOverflow \/ AllocateOverflow \/ Deallocate

SpecOverflow == Init /\ [][NextOverflow]_vars

(* The guard: alloc and dealloc split at self.lock(), on a core where an        *)
(* interrupt can fire between any two steps of the interrupted code.  A handler *)
(* runs to its end before the interrupted code resumes.                         *)

InitializeLocked ==
    /\ script = << >>
    /\ cpu.handler = "none"
    /\ \E heap_start \in LockedStarts, heap_size \in LockedHeapSizes :
          DoInit(heap_start, heap_size)
    /\ UNCHANGED <<script, pc, slots, cpu>>

\* the interrupted code enters alloc or dealloc and takes the guard
MainLock ==
    /\ script = << >>
    /\ phase = "operating"
    /\ ~aborted
    /\ cpu.handler = "none"
    /\ cpu.main = "idle"
    /\ ~cpu.lock
    /\ \/ \E size \in LockedSizes, align \in LockedAligns :
             /\ Cardinality(live) < MaxLiveAligned
             /\ cpu' = [cpu EXCEPT !.lock = TRUE, !.main = "locked", !.call = "alloc",
                                   !.arg = [NoArg EXCEPT !.size = size, !.align = align]]
       \/ \E l \in live :
             cpu' = [cpu EXCEPT !.lock = TRUE, !.main = "locked", !.call = "dealloc",
                                !.arg = l]
    /\ UNCHANGED <<phase, heap, head, nodes, aborted, live, last, script, pc, slots>>

\* mutant of MainAlloc: the guard is not released when alloc returns
MainAlloc_keeps_guard ==
    /\ script = << >>
    /\ cpu.handler = "none"
    /\ cpu.main = "locked"
    /\ cpu.call = "alloc"
    /\ DoAlloc(cpu.arg.size, cpu.arg.align, MaxLiveAligned)
    /\ cpu' = [cpu EXCEPT !.main = "idle", !.call = "none", !.arg = NoArg]
    /\ UNCHANGED <<script, pc, slots>>

\* the rest of alloc in the interrupted code: the body under the guard, and the
\* return, which drops the guard
MainAlloc ==
    /\ script = << >>
    /\ cpu.handler = "none"
    /\ cpu.main = "locked"
    /\ cpu.call = "alloc"
    /\ DoAlloc(cpu.arg.size, cpu.arg.align, MaxLiveAligned)
    /\ cpu' = [cpu EXCEPT !.lock = FALSE, !.main = "idle", !.call = "none",
                          !.arg = NoArg]
    /\ UNCHANGED <<script, pc, slots>>

\* the rest of dealloc in the interrupted code
MainDealloc ==
    /\ script = << >>
    /\ cpu.handler = "none"
    /\ cpu.main = "locked"
    /\ cpu.call = "dealloc"
    /\ DoDealloc(cpu.arg)
    /\ cpu' = [cpu EXCEPT !.lock = FALSE, !.main = "idle", !.call = "none",
                          !.arg = NoArg]
    /\ UNCHANGED <<script, pc, slots>>

\* an interrupt fires: nothing masks interrupts around alloc and dealloc, so it
\* can find the interrupted code anywhere; the handler allocates when the run's
\* handlers do and the caller's bound on live blocks leaves room
Interrupt ==
    /\ script = << >>
    /\ phase = "operating"
    /\ cpu.handler = "none"
    /\ cpu' = [cpu EXCEPT !.handler = IF cpu.allocates
                                         /\ Cardinality(live) < MaxLiveAligned
                                      THEN "wants" ELSE "entered"]
    /\ UNCHANGED <<phase, heap, head, nodes, aborted, live, last, script, pc, slots>>

\* the handler's alloc: self.lock() finds the guard free and takes it
HandlerLock ==
    /\ script = << >>
    /\ cpu.handler = "wants"
    /\ ~cpu.lock
    /\ cpu' = [cpu EXCEPT !.lock = TRUE, !.handler = "locked"]
    /\ UNCHANGED <<phase, heap, head, nodes, aborted, live, last, script, pc, slots>>

\* the handler's alloc: self.lock() finds the guard held and busy-waits
HandlerSpin ==
    /\ script = << >>
    /\ cpu.handler \in {"wants", "spin"}
    /\ cpu.lock
    /\ cpu' = [cpu EXCEPT !.handler = "spin"]
    /\ UNCHANGED <<phase, heap, head, nodes, aborted, live, last, script, pc, slots>>

\* the rest of the handler's alloc
HandlerAllocate ==
    /\ script = << >>
    /\ cpu.handler = "locked"
    /\ DoAlloc(NodeSize, NodeAlign, MaxLiveAligned)
    /\ cpu' = [cpu EXCEPT !.lock = FALSE, !.handler = "done"]
    /\ UNCHANGED <<script, pc, slots>>

\* the handler returns to the interrupted code
HandlerReturn ==
    /\ script = << >>
    /\ cpu.handler \in {"entered", "done"}
    /\ cpu' = [cpu EXCEPT !.handler = "none"]
    /\ UNCHANGED <<phase, heap, head, nodes, aborted, live, last, script, pc, slots>>

InitLocked ==
    /\ phase = "uninit"
    /\ heap = [start |-> 0, size |-> 0]
    /\ head = new.head
    /\ nodes = new.nodes
    /\ aborted = new.aborted
    /\ live = {}
    /\ last = NoCall
    /\ script = << >>
    /\ pc = 1
    /\ slots = << >>
    /\ cpu \in {[CpuIdle EXCEPT !.allocates = b] : b \in BOOLEAN}

Handler == HandlerLock \/ HandlerSpin \/ HandlerAllocate \/ HandlerReturn

NextLocked ==
    \/ InitializeLocked
    \/ MainLock
    \/ MainAlloc
    \/ MainDealloc
    \/ Interrupt
    \/ Handler

\* the core keeps executing: a handler runs with interrupts off until it returns
\* (weak fairness of its steps), and the interrupted code, resumed after every
\* return of a handler, gets to finish the call it is in (strong fairness: a new
\* interrupt may fire first, but not every time)
SpecLocked ==
    /\ InitLocked
    /\ [][NextLocked]_vars
    /\ WF_vars(Handler)
    /\ SF_vars(MainAlloc \/ MainDealloc)

(* A caller that breaks the contract of init: it calls init again on the        *)
(* operating allocator, with the range it gave the first time.  The run is      *)
(* followed up to that call.                                                    *)

\* init has been called on the operating allocator
Reinitialized == last.op = "init" /\ last.after # "none"

\* allocator.lock().init(heap_start, heap_size) on an operating allocator
DoReinit(heap_start, heap_size) ==
    \E s \in {init(Self, heap_start, heap_size)} :
        /\ phase = "operating"
        /\ ~aborted
        /\ head' = s.head
        /\ nodes' = s.nodes
        /\ aborted' = s.aborted
        /\ last' = InitRecord(heap_start, heap_size)
        /\ UNCHANGED <<phase, heap, live>>

AllocateFirst ==
    /\ script = << >>
    /\ ~Reinitialized
    /\ \E size \in Sizes, align \in Aligns :
          DoAlloc(size, align, MaxLiveAligned)
    /\ UNCHANGED <<script, pc, slots, cpu>>

DeallocateFirst ==
    /\ ~Reinitialized
    /\ Deallocate

Reinitialize ==
    /\ script = << >>
    /\ ~Reinitialized
    /\ DoReinit(heap.start, heap.size)
    /\ UNCHANGED <<script, pc, slots, cpu>>

NextReinit == Initialize \/ AllocateFirst \/ DeallocateFirst \/ Reinitialize

SpecReinit == Init /\ [][NextReinit]_vars

-----------------------------------------------------------------------------
(* Scenario runs: a caller that makes a fixed sequence of calls on a fresh       *)
(* allocator and stops at the first allocation that fails, as the tests do      *)
(* (Box::new and unwrap_or_else(panic!) both end the run on a null pointer).    *)

InitOp(heap_start, heap_size) == [op |-> "init", a |-> heap_start, b |-> heap_size]
AllocOp(size, align) == [op |-> "alloc", a |-> size, b |-> align]
\* dealloc of the block the slot-th allocate of the script returned
DeallocOp(slot) == [op |-> "dealloc", a |-> slot, b |-> 0]

\* the fragmentation scenario: a 1024-byte heap, four 64-byte blocks, blocks i and
\* j freed, then one request of req bytes; all at alignment 8
Frag(heap_start, i, j, req) ==
    <<InitOp(heap_start, 1024)>> \o [k \in 1..4 |-> AllocOp(64, 8)]
        \o <<DeallocOp(i), DeallocOp(j), AllocOp(req, 8)>>

FragStarts == {4096, 4104}
FragRequests == {200, 800}
FragScripts ==
    UNION {{Frag(s, i, j, r) : s \in FragStarts, j \in (1..4) \ {i}, r \in FragRequests}
              : i \in 1..4}

\* many_long_lived_small_then_big on a heap of heap_size bytes:
\* Vec::with_capacity(13) of Box pointers, 13 Box<MediumData> of HEAP_SIZE / 16
\* bytes, drop(boxes) (the elements in order, then the buffer),
\* Vec::with_capacity(7), 7 Box<LargeData> of HEAP_SIZE / 8 bytes
Reclaim(heap_start, heap_size) ==
    <<InitOp(heap_start, heap_size), AllocOp(13 * 8, 8)>>
        \o [k \in 1..13 |-> AllocOp(heap_size \div 16, 1)]
        \o [k \in 1..13 |-> DeallocOp(k + 1)]
        \o <<DeallocOp(1), AllocOp(7 * 8, 8)>>
        \o [k \in 1..7 |-> AllocOp(heap_size \div 8, 1)]

\* HEAP_START and HEAP_SIZE are set outside the files modelled: page-aligned
\* starts, and sizes from 1 KiB to 100 KiB
ReclaimStarts == {4096, 8192}
ReclaimHeapSizes == {1024, 4096, 16384, 102400}
ReclaimScripts == {Reclaim(s, h) : s \in ReclaimStarts, h \in ReclaimHeapSizes}

Scenarios == FragScripts \cup ReclaimScripts

\* the run has stopped on a failed allocation
Stopped == last.op = "alloc" /\ last.ptr = NULL

ScriptStep(op) ==
    /\ script # << >>
    /\ pc <= Len(script)
    /\ script[pc].op = op
    /\ ~Stopped
    /\ pc' = pc + 1
    /\ UNCHANGED <<script, cpu>>

ScriptInit ==
    /\ ScriptStep("init")
    /\ DoInit(script[pc].a, script[pc].b)
    /\ UNCHANGED slots

ScriptAlloc ==
    /\ ScriptStep("alloc")
    /\ DoAlloc(script[pc].a, script[pc].b, Len(script))
    /\ slots' = Append(slots, last'.ptr)

ScriptDealloc ==
    /\ ScriptStep("dealloc")
    /\ \E l \in live :
          /\ l.addr = slots[script[pc].a]
          /\ DoDealloc(l)
    /\ UNCHANGED slots

InitScenario ==
    /\ phase = "uninit"
    /\ heap = [start |-> 0, size |-> 0]
    /\ head = new.head
    /\ nodes = new.nodes
    /\ aborted = new.aborted
    /\ live = {}
    /\ last = NoCall
    /\ script \in Scenarios
    /\ pc = 1
    /\ slots = << >>
    /\ cpu = CpuIdle

NextScenario == ScriptInit \/ ScriptAlloc \/ ScriptDealloc

SpecScenario == InitScenario /\ [][NextScenario]_vars

-----------------------------------------------------------------------------
(* Properties *)

\* the bytes a live allocation occupies: [addr, addr + adjusted size)
LiveRange(l) == [lo |-> l.addr, hi |-> l.addr + size_align(l.size, l.align)[1]]
\* the bytes a free region covers, as its node says
FreeRange(n) == [lo |-> n.addr, hi |-> end_addr(n.addr, n.size)]
Disjoint(a, b) == a.hi <= b.lo \/ b.hi <= a.lo

RECURSIVE SumLive(_)
SumLive(S) ==
    IF S = {} THEN 0
    ELSE LET l == CHOOSE x \in S : TRUE
         IN  size_align(l.size, l.align)[1] + SumLive(S \ {l})

\* C1: in every reachable state no two live allocated ranges overlap, no two free
\* regions overlap, and no free region overlaps a live allocated range.
C1_NoOverlap ==
    /\ \A l1, l2 \in live : l1 # l2 => Disjoint(LiveRange(l1), LiveRange(l2))
    /\ \A i, j \in 1..Len(FreeList) :
          i # j => Disjoint(FreeRange(FreeList[i]), FreeRange(FreeList[j]))
    /\ \A i \in 1..Len(FreeList) : \A l \in live :
          Disjoint(FreeRange(FreeList[i]), LiveRange(l))

\* C1 witness: several live blocks next to several free regions, after a dealloc
C1_Witness ==
    /\ Cardinality(live) >= 2
    /\ Len(FreeList) >= 2
    /\ last.op = "dealloc"

\* C2: in every reachable state the sizes of the free-list nodes plus the adjusted
\* sizes of the live allocations sum to at most heap_size.
C2_SumBounded ==
    phase = "operating" => SumSizes(FreeList) + SumLive(live) <= heap.size

\* C2 witness: live blocks and free regions that account for the whole heap
C2_Witness ==
    /\ live # {}
    /\ Len(FreeList) >= 2
    /\ SumSizes(FreeList) + SumLive(live) = heap.size

\* C3: whenever allocate(size, a) succeeds, for a any power of two up to 4096, the
\* returned address is a multiple of a and the block [addr, addr + adjusted size)
\* lies inside the free region it was carved from.
C3_AlignedInsideRegion ==
    (last.op = "alloc" /\ last.ptr # NULL) =>
        /\ last.ptr % last.align = 0
        /\ last.region # NULL
        /\ start_addr(last.region) <= last.ptr
        /\ last.ptr + size_align(last.size, last.align)[1]
              <= end_addr(last.region, last.region_size)

\* C3 witness: a 4096-aligned block carved from a region that starts before it
C3_Witness ==
    /\ last.op = "alloc"
    /\ last.ptr # NULL
    /\ last.align = 4096
    /\ last.ptr > last.region

\* the end of the heap range given to init
HeapEnd == heap.start + heap.size

\* C4 as stated: after initialize(start, size), one allocate(n, a) with
\* 0 < n <= size and an alignment that can be satisfied inside the range (read
\* generously: the whole adjusted block, aligned, ends inside the range) succeeds,
\* with an address in [start, start + size) that is a multiple of a.
C4_Original ==
    (/\ last.op = "alloc"
     /\ last.after = "init"
     /\ last.size <= heap.size
     /\ LET sa == size_align(last.size, last.align)
        IN  fast_align_up(heap.start, sa[2]) + sa[1] <= HeapEnd)
    => (/\ last.ptr # NULL
        /\ heap.start <= last.ptr
        /\ last.ptr < HeapEnd
        /\ last.ptr % last.align = 0)

\* C4 amended: after initialize(start, size), one allocate(n, a) succeeds, with an
\* address in [start, start + size) that is a multiple of a, provided the adjusted
\* block (size_align(n, a), placed at start aligned up to the adjusted alignment)
\* ends inside the range and leaves either nothing or at least a node's size.
C4_FirstAllocate ==
    (/\ last.op = "alloc"
     /\ last.after = "init"
     /\ LET sa == size_align(last.size, last.align)
            block_end == fast_align_up(heap.start, sa[2]) + sa[1]
        IN  /\ block_end <= HeapEnd
            /\ (HeapEnd - block_end = 0 \/ HeapEnd - block_end >= NodeSize))
    => (/\ last.ptr # NULL
        /\ heap.start <= last.ptr
        /\ last.ptr < HeapEnd
        /\ last.ptr % last.align = 0)

\* C4 witness: the first allocate after init succeeds past the start of the heap
C4_Witness ==
    /\ last.op = "alloc"
    /\ last.after = "init"
    /\ last.ptr # NULL
    /\ last.ptr > heap.start

\* C5: an allocate that finds no fitting region returns null without aborting and
\* leaves the free list exactly as it was (same nodes, sizes and order).
C5_OomLeavesList ==
    [][(last'.op = "alloc" /\ last'.ptr = NULL)
         => (head' = head /\ nodes' = nodes /\ ~aborted')]_vars

\* C5 witness: an allocate returned null while the list held several regions
C5_Witness ==
    /\ last.op = "alloc"
    /\ last.ptr = NULL
    /\ Len(FreeList) >= 2

\* this allocate directly follows the dealloc of a block of the same layout
Realloc ==
    /\ last.op = "alloc"
    /\ last.re_ptr # NULL
    /\ last.re_size = last.size
    /\ last.re_align = last.align

\* C6 as stated: allocate, deallocate, allocate of one layout returns the same
\* address, and an allocate-then-deallocate repetition never fails and never
\* lengthens the free list.
C6_Original ==
    /\ Realloc => last.ptr = last.re_ptr
    /\ (last.op = "dealloc" /\ last.cyc_len # -1) => Len(FreeList) <= last.cyc_len

\* C6 amended: allocate, deallocate, allocate of one layout returns the same
\* address; an allocate-then-deallocate repetition never fails, its first round
\* adds at most one node to the free list (the leftover of the split) and every
\* later round leaves the length of the free list as it was.
C6_Reuse ==
    /\ Realloc => last.ptr = last.re_ptr
    /\ (last.op = "dealloc" /\ last.cyc_len # -1) =>
          /\ Len(FreeList) <= last.cyc_len + 1
          /\ last.rep => Len(FreeList) = last.cyc_len

\* C6 witness: a block was allocated, freed and allocated again, then freed again
C6_Witness ==
    /\ last.op = "dealloc"
    /\ last.rep
    /\ Len(FreeList) >= 2

\* C9: allocate(1, a) with a <= the node alignment takes at least a node's size out
\* of the free space; freed with the same layout, a following request for exactly
\* a node's size returns the same address.
C9_MinimumSize ==
    /\ (last.op = "alloc" /\ last.size = 1 /\ last.align <= NodeAlign /\ last.ptr # NULL)
          => LET block_end == IF Len(FreeList) = last.len
                              THEN FreeList[1].addr
                              ELSE end_addr(last.region, last.region_size)
             IN  block_end - last.ptr >= NodeSize
    /\ (/\ last.op = "alloc" /\ last.size = NodeSize /\ last.align <= NodeAlign
        /\ last.re_ptr # NULL /\ last.re_size = 1 /\ last.re_align <= NodeAlign)
          => last.ptr = last.re_ptr

\* C9 witness: a 1-byte block was freed and a node-size request took its address
C9_Witness ==
    /\ last.op = "alloc"
    /\ last.size = NodeSize
    /\ last.re_size = 1
    /\ last.re_align <= NodeAlign
    /\ last.ptr = last.re_ptr
    /\ last.ptr # NULL

\* C10: every node of the free list has a size of at least a node's size and a
\* node-aligned address, and no assertion of add_free_region has failed.
C10_NodesWellFormed ==
    /\ ~aborted
    /\ \A i \in 1..Len(FreeList) :
          /\ FreeList[i].size >= NodeSize
          /\ fast_align_up(FreeList[i].addr, NodeAlign) = FreeList[i].addr
          /\ FreeList[i].addr % NodeAlign = 0

\* C10 witness: the list holds a leftover of a split and a block added by dealloc
C10_Witness ==
    /\ last.op = "dealloc"
    /\ Len(FreeList) >= 3
    /\ \E i \in 1..Len(FreeList) : FreeList[i].size % NodeSize # 0

\* the run is the fragmentation scenario that frees blocks #1 and #3 and then
\* asks for req bytes
FragRun(req) == \E s \in FragStarts : script = Frag(s, 1, 3, req)
Finished == script # << >> /\ pc = Len(script) + 1

\* C7 as stated: in the fragmentation scenario (1024-byte heap, four 64-byte
\* blocks, #1 and #3 freed) allocate(200, 8) returns OutOfMemory.
C7_Original ==
    (FragRun(200) /\ Finished) => last.ptr = NULL

\* C7 amended: in that scenario the four blocks lie at heap_start + 0, 64, 128 and
\* 192, and allocate(200, 8) succeeds at heap_start + 256, inside the 768-byte
\* remainder of the heap; a request larger than that remainder (800 bytes) returns
\* OutOfMemory although 896 bytes are free, because regions are never merged.
C7_Fragmentation ==
    \A req \in FragRequests :
        FragRun(req) =>
            /\ \A k \in 1..Len(slots) : k <= 4 => slots[k] = heap.start + 64 * (k - 1)
            /\ (Finished /\ req = 200) => last.ptr = heap.start + 256
            /\ (Finished /\ req = 800) =>
                  /\ last.ptr = NULL
                  /\ SumSizes(FreeList) = 896
                  /\ Len(FreeList) = 3

\* C7 witness: the scenario has run to its end and the 200-byte request succeeded
C7_Witness ==
    /\ FragRun(200)
    /\ Finished
    /\ last.op = "alloc"
    /\ last.size = 200
    /\ last.ptr = heap.start + 256

\* C8 as stated: in many_long_lived_small_then_big every allocation succeeds: the
\* 13-slot buffer and the 13 blocks of HEAP_SIZE / 16 bytes, and, once those are
\* freed, the 7-slot buffer and the 7 blocks of HEAP_SIZE / 8 bytes.
C8_Original ==
    (script \in ReclaimScripts /\ last.op = "alloc") => last.ptr # NULL

\* the list s without its i-th node
Without(s, i) == SubSeq(s, 1, i - 1) \o SubSeq(s, i + 1, Len(s))
\* the position in the list s of the node at addr
IndexOf(s, addr) == CHOOSE i \in 1..Len(s) : s[i].addr = addr

\* C11: deallocate(address, size, align) always succeeds and prepends: right after
\* it the first node after the sentinel is the node at `address` with the adjusted
\* size and the rest of the list is the list as it was before, in the same order;
\* so the list is ordered by recency of insertion, not by address.
C11_DeallocPrepends ==
    [][last'.op = "dealloc" =>
          /\ ~aborted'
          /\ FreeList' = <<[addr |-> last'.ptr,
                            size |-> size_align(last'.size, last'.align)[1]]>>
                            \o FreeList]_vars

\* C11 witness: after a deallocate the list holds three regions that are neither
\* in ascending nor in descending address order
C11_Witness ==
    /\ last.op = "dealloc"
    /\ Len(FreeList) >= 3
    /\ FreeList[1].addr > FreeList[2].addr
    /\ FreeList[2].addr < FreeList[3].addr

\* C12: in every reachable state, before and after initialize, the sentinel is
\* present with size 0 and is not a node of the heap; a successful allocate was
\* served from a region that is a real node (not the sentinel, which has no
\* address in the heap) and its address lies inside the heap range.
C12_Sentinel ==
    /\ head.size = 0
    /\ NULL \notin DOMAIN nodes
    /\ \A i \in 1..Len(FreeList) : FreeList[i].addr # NULL
    /\ (last.op = "alloc" /\ last.ptr # NULL) =>
          /\ last.region # NULL
          /\ last.region_size > 0
          /\ heap.start <= last.region
          /\ heap.start <= last.ptr
          /\ last.ptr < HeapEnd

\* C12 witness: an allocate took the only region, so the sentinel is all that is
\* left of the list
C12_Witness ==
    /\ last.op = "alloc"
    /\ last.ptr # NULL
    /\ last.examined = 1
    /\ head.next = NULL
    /\ head.size = 0

\* the fit test on the node n of the free list
Fits(n, size, align) == alloc_from_region_possible(n.addr, n.size, size, align).ok

\* C13: find_region is first-fit in list order: the region it returns is the first
\* node from the sentinel that passes the fit test (every node before it fails,
\* and when it returns none every node fails); only that node leaves the list,
\* all other nodes keep their sizes and their order; no operation merges regions:
\* every step leaves the nodes that were in the list as they were, in front of
\* which at most one node is added.
C13_FirstFit ==
    [][IF last'.op = "alloc"
       THEN LET sa == size_align(last'.size, last'.align)
            IN  IF last'.region = NULL
                THEN /\ \A i \in 1..Len(FreeList) : ~Fits(FreeList[i], sa[1], sa[2])
                     /\ FreeList' = FreeList
                ELSE /\ \E i \in 1..Len(FreeList) : FreeList[i].addr = last'.region
                     /\ LET k == IndexOf(FreeList, last'.region)
                        IN  /\ Fits(FreeList[k], sa[1], sa[2])
                            /\ FreeList[k].size = last'.region_size
                            /\ \A i \in 1..(k - 1) : ~Fits(FreeList[i], sa[1], sa[2])
                            /\ \/ FreeList' = Without(FreeList, k)
                               \/ /\ FreeList' # << >>
                                  /\ Tail(FreeList') = Without(FreeList, k)
       ELSE /\ FreeList' # << >>
            /\ Tail(FreeList') = FreeList]_vars

\* C13 witness: find_region passed over two regions and took a later one, and the
\* list still holds two regions that are adjacent in memory
C13_Witness ==
    /\ last.op = "alloc"
    /\ last.ptr # NULL
    /\ last.examined >= 3
    /\ \E i, j \in 1..Len(FreeList) :
          end_addr(FreeList[i].addr, FreeList[i].size) = FreeList[j].addr

\* the fit test as the claim states it, in unbounded arithmetic
FitStated(region, region_size, size, align) ==
    LET start == fast_align_up(region, align)
        end == start + size
        region_end == region + region_size
    IN  /\ end <= region_end
        /\ (region_end - end = 0 \/ region_end - end >= NodeSize)

\* the sizes and alignments the fit test is asked about: the requests and their
\* adjusted forms
FitLayouts ==
    {<<s, a>> : s \in Sizes, a \in Aligns} \cup {size_align(s, a) : s \in Sizes, a \in Aligns}

\* C14: the fit test accepts a region for (size, align) exactly when, with
\* start = align_up(region.start, align) and end = start + size, end <= region.end
\* and region.end - end is 0 or at least a node's size; the answer carries start;
\* an allocate that failed had every region refused by that rule and one that
\* succeeded was served from a region accepted by it.
C14_FitTest ==
    /\ \A i \in 1..Len(FreeList) : \A l \in FitLayouts :
          LET n == FreeList[i]
              fit == alloc_from_region_possible(n.addr, n.size, l[1], l[2])
          IN  /\ fit.ok <=> FitStated(n.addr, n.size, l[1], l[2])
              /\ fit.ok => fit.start = fast_align_up(n.addr, l[2])
    /\ last.op = "alloc" =>
          LET sa == size_align(last.size, last.align)
          IN  IF last.ptr = NULL
              THEN \A i \in 1..Len(FreeList) :
                      ~FitStated(FreeList[i].addr, FreeList[i].size, sa[1], sa[2])
              ELSE FitStated(last.region, last.region_size, sa[1], sa[2])

\* C14 witness: an allocate failed although a region is large enough for the
\* block, because between 1 and node-size - 1 bytes would be left over
C14_Witness ==
    /\ last.op = "alloc"
    /\ last.ptr = NULL
    /\ \E i \in 1..Len(FreeList) :
          LET n == FreeList[i]
              sa == size_align(last.size, last.align)
              leftover == end_addr(n.addr, n.size)
                             - (fast_align_up(n.addr, sa[2]) + sa[1])
          IN  leftover > 0 /\ leftover < NodeSize

\* C15: a successful allocate from region R with block [alloc_start, alloc_end)
\* returns alloc_start = align_up(R.start, adjusted align); when R.end - alloc_end
\* is positive a region [alloc_end, R.end) of exactly that size is prepended, when
\* it is 0 nothing is added; the list after is the list before without R, with
\* that leftover in front.
C15_Split ==
    [][(last'.op = "alloc" /\ last'.ptr # NULL) =>
          LET sa == size_align(last'.size, last'.align)
              alloc_end == last'.ptr + sa[1]
              region_end == end_addr(last'.region, last'.region_size)
              rest == Without(FreeList, IndexOf(FreeList, last'.region))
          IN  /\ last'.ptr = fast_align_up(start_addr(last'.region), sa[2])
              /\ alloc_end <= region_end
              /\ FreeList' = IF region_end - alloc_end > 0
                             THEN <<[addr |-> alloc_end,
                                     size |-> region_end - alloc_end]>> \o rest
                             ELSE rest]_vars

\* C15 witness: an allocate split a region that was not the first of the list and
\* its leftover is now the first node, in front of the regions passed over
C15_Witness ==
    /\ last.op = "alloc"
    /\ last.ptr # NULL
    /\ last.examined >= 2
    /\ Len(FreeList) = last.len
    /\ FreeList[1].addr = last.ptr + size_align(last.size, last.align)[1]
    /\ end_addr(FreeList[1].addr, FreeList[1].size)
          = end_addr(last.region, last.region_size)


\* n rounded up to a multiple of a
RoundUp(n, a) == n + ((a - (n % a)) % a)

C17_Original ==
    phase = "operating" =>
        /\ SumSizes(FreeList) + SumLive(live) = heap.size
        /\ live = {} => SumSizes(FreeList) = heap.size

\* C18: under contract-respecting sequences every call returns: the free list is
\* a finite acyclic chain in every reachable state (the walk from the sentinel
\* ends at a null `next` after visiting every node once), and find_region ends
\* after examining at most as many nodes as the list holds: all of them when it
\* finds none.
C18_AcyclicTerminates ==
    /\ ~aborted
    /\ head.next \in DOMAIN nodes \cup {NULL}
    /\ \A a \in DOMAIN nodes : nodes[a].next \in DOMAIN nodes \cup {NULL}
    /\ Len(FreeList) = Cardinality(DOMAIN nodes)
    /\ \A i, j \in 1..Len(FreeList) : i # j => FreeList[i].addr # FreeList[j].addr
    /\ last.op = "alloc" =>
          /\ last.examined >= 0
          /\ last.examined <= last.len
          /\ last.ptr = NULL => last.examined = last.len
          /\ last.ptr # NULL => last.examined >= 1

\* C18 witness: find_region walked a list of three regions to its end and found
\* none that fits
C18_Witness ==
    /\ last.op = "alloc"
    /\ last.ptr = NULL
    /\ last.examined = 3
    /\ Len(FreeList) = 3


\* the block asked of the region n ends beyond the address width
Overflows(n, size, align) == fast_align_up(n.addr, align) + size > USIZE_MAX

Deadlocked == cpu.handler = "spin" /\ cpu.lock /\ cpu.main = "locked"

\* C20: both entry points hold the one guard from before the list is touched
\* until they return (the guard is held by exactly the call that is past
\* self.lock(), and every step that changes the list starts with the guard held
\* and ends with it released); when an interrupt whose handler calls alloc fires
\* while the interrupted code holds the guard, the handler comes to spin and from
\* then on nothing changes: it never gets the guard and neither it nor the
\* interrupted call completes; when handlers never allocate that never happens and
\* every call that took the guard releases it.
C20_Guard ==
    /\ [](cpu.lock <=> (cpu.main = "locked" \/ cpu.handler = "locked"))
    /\ [](~(cpu.main = "locked" /\ cpu.handler = "locked"))
    /\ [][(phase = "operating" /\ (head' # head \/ nodes' # nodes \/ last' # last))
             => (cpu.lock /\ ~cpu'.lock)]_vars
    /\ [][Deadlocked => Deadlocked']_vars
    /\ (cpu.handler = "wants" /\ cpu.lock) ~> Deadlocked
    /\ [](~cpu.allocates => ~Deadlocked)
    /\ (~cpu.allocates /\ cpu.lock) ~> ~cpu.lock

\* C20 witness: the handler spins for the guard while the interrupted code is
\* inside alloc, holding it
C20_Witness ==
    /\ Deadlocked
    /\ cpu.call = "alloc"
    /\ cpu.allocates


\* C21 as stated: a second initialize on an operating allocator is caught by an
\* assertion that aborts: the call never modifies the free list, and no list with
\* a duplicated or self-referencing node is ever produced.
C21_Original ==
    [][(last'.op = "init" /\ phase = "operating") =>
          /\ aborted'
          /\ head' = head
          /\ nodes' = nodes
          /\ \A a \in DOMAIN nodes' : nodes'[a].next # a
          /\ Len(FreeList') = Cardinality(DOMAIN nodes')]_vars


====
